---- MODULE Spec2Model ----
(***************************************************************************)
(* Model of archivedir.py's streaming engine:                              *)
(*   SplitFileWriter     bytes in, numbered part files out                 *)
(*   ParallelGzipWriter  chunks compressed by a pool, drained in order     *)
(*   MultiPartFileReader numbered part files read back as one stream       *)
(* Bytes are natural numbers.  The n-th byte a producer hands over has the *)
(* value n, so that a lost, repeated or misplaced byte is always visible;  *)
(* none of the modelled code looks at the value of a byte.                 *)
(***************************************************************************)
EXTENDS Integers, Sequences, FiniteSets, TLC

VARIABLES
    sw,        \* the SplitFileWriter object (its fields)
    disk,      \* the file system: part name -> content
    swErr,     \* outcome of the last call on the SplitFileWriter
    written,   \* all data passed to SplitFileWriter.write, in call order
    swCloses,  \* number of SplitFileWriter.close calls made
    swLast,    \* the last call made on the SplitFileWriter
    handles,   \* the part names that have an open file handle
    rd,        \* the MultiPartFileReader object (its fields)
    rdErr,     \* outcome of the last call on the MultiPartFileReader
    got,       \* all data returned by MultiPartFileReader.read, in call order
    rdLast,    \* the last call made on the reader: its size and its result
    gz,        \* the ParallelGzipWriter object (its fields)
    executor,  \* its ThreadPoolExecutor: shutdown flag and submitted tasks
    pc,        \* where the controlling thread is inside write()/close()
    call,      \* the running (or last) call: its name and its local `future`
    gzErr,     \* outcome of the last call on the ParallelGzipWriter
    input,     \* all data passed to ParallelGzipWriter.write, in call order
    sunk,      \* the chunks whose frames were passed to sink.write, in order
    hist,      \* what has happened: normal close, first failed chunk, errors
    crypto,    \* the last call into crypto.py: arguments, result, exception
    fast       \* the call in progress of stream_to_s3, stream_to_gdrive or run_extract

sinkVars == <<sw, swErr, written, swCloses, swLast, handles>>
rdVars == <<rd, rdErr, got, rdLast>>
gzVars == <<gz, executor, pc, call, gzErr, input, sunk, hist>>
vars == <<sw, disk, swErr, written, swCloses, swLast, handles,
          rd, rdErr, got, rdLast,
          gz, executor, pc, call, gzErr, input, sunk, hist,
          crypto, fast>>

\* ---------------------------------------------------------------- bounds
MaxSplit == 3      \* largest segment capacity tried
MaxWrite == 4      \* longest single write to the sink
MaxInput == 7      \* most bytes handed to a sink over a run
MaxCloses == 2     \* most close() calls on one sink
MaxSegs == 3       \* most segments laid out for a reader on its own
MaxSegLen == 2     \* longest such segment
MaxRead == 3       \* largest bounded read size
ChunkSize == 2     \* chunk_size, scaled down from 2 MiB
MaxWorkers == 2    \* largest worker count tried
MaxGzWrite == 2    \* longest single write to the compressor
MaxGzInput == 8    \* most bytes handed to the compressor over a run
MaxFailures == 2   \* most chunk compressions that fail in a run
RecursionLimit == 8  \* nested write() calls the interpreter's stack allows,
                     \* scaled down from sys.getrecursionlimit() = 1000
MaxBigWrite == 10  \* longest single write when the stack is exercised
MaxBigInput == 12  \* most bytes handed to a sink in such a run
MaxBadSplit == 1   \* capacities down to -MaxBadSplit go to the constructor
MaxBadThreads == 1 \* worker counts down to -MaxBadThreads go to it
MaxCpu == 2        \* largest os.cpu_count() tried
MaxConfigParts == 12  \* parts after which a run with any capacity stops
DefaultIterations == 100000  \* iterations=100000 of crypto.py
SaltBytes == 16              \* secrets.token_bytes(16)
SaltHexLen == 32             \* len(salt) != 32
MaxToken == 1                \* the random tokens drawn are 0..MaxToken
MaxIterations == 1           \* iteration counts 1..MaxIterations and the default
MaxMetadataFiles == 2        \* files on the file system of the crypto model
MaxLiveInput == 6            \* bytes written in the runs checked for progress
MaxStream == 5               \* bytes in a stream given to a streaming upload
PartSize == 2                \* bytes in one uploaded part
MaxCloudFailures == 2        \* failing calls in one streaming upload
MaxParts == 60     \* part counts up to this one are all tried
ManyParts == 1001  \* a part count above 1000

\* No streaming upload has been started.
NoStream == [fn |-> "none"]

\* No call into crypto.py has been made.
NoCrypto == [op |-> "none"]

\* ------------------------------------------------------------ sequences
\* The position a Python slice bound n denotes in s: a negative bound
\* counts from the end, and a bound outside the sequence is clipped.
SliceIndex(s, n) ==
    IF n < 0 THEN (IF Len(s) + n < 0 THEN 0 ELSE Len(s) + n)
    ELSE IF n > Len(s) THEN Len(s) ELSE n

Take(s, n) == SubSeq(s, 1, SliceIndex(s, n))                 \* s[:n]
Drop_mut_offbyone(s, n) == SubSeq(s, n + 2, Len(s))
Drop(s, n) == SubSeq(s, SliceIndex(s, n) + 1, Len(s))        \* s[n:]

\* The next n bytes of a producer that has handed over `sofar` already.
NextBytes(sofar, n) == [i \in 1..n |-> Len(sofar) + i]

\* ------------------------------------------------------------ part names
RECURSIVE Digits(_)
Digits(n) == IF n < 10 THEN <<n>> ELSE Append(Digits(n \div 10), n % 10)

RECURSIVE ZeroPad(_, _)
ZeroPad(d, width) == IF Len(d) >= width THEN d ELSE ZeroPad(<<0>> \o d, width)

\* f"{self.part_num:03d}": decimal, zero-padded to at least three digits.
\* A part name is the common prefix followed by these digits; the model
\* keeps the digits only.
PartSuffix(part_num) == ZeroPad(Digits(part_num), 3)

\* ------------------------------------------------------- SplitFileWriter
\* current_file is "None", "open" or "closed" (a closed file object is
\* still a true value in Python); current_filename is <<>> for None.
SplitFileWriter_init(split_size_bytes, s3_bucket) ==
    [ split_size             |-> split_size_bytes,
      part_num               |-> 0,
      current_file           |-> "None",
      current_filename       |-> <<>>,
      bytes_written_current  |-> 0,
      total_bytes_written    |-> 0,
      s3_bucket              |-> s3_bucket,
      files_ready_for_upload |-> <<>> ]

\* A sink state at the start of a call: the object, the disk, the pending
\* exception, the open handles, the number of Python frames the call has
\* on the stack, and whether the interpreter counts calls of C functions
\* against the recursion limit (CPython up to 3.11 does, later ones do not).
SinkSt(w, d, e) ==
    [ sw |-> w, disk |-> d, err |-> e, handles |-> handles,
      depth |-> 0, c_calls |-> FALSE ]

FileWrite_mut_anyfile(st, bytes) ==
    [st EXCEPT !.disk[st.sw.current_filename] = @ \o bytes]

\* current_file.write(bytes): ValueError on a closed file.
FileWrite(st, bytes) ==
    IF st.sw.current_file = "closed"
    THEN [st EXCEPT !.err = "ValueError"]
    ELSE [st EXCEPT !.disk[st.sw.current_filename] = @ \o bytes]

\* if self.current_file: self.current_file.close();
\*     if self.s3_bucket: self.files_ready_for_upload.append(...)
\* as _open_next_file and close both have it.
CloseCurrent_mut_queueopen(st) ==
    IF st.sw.current_file # "None" /\ st.sw.s3_bucket
    THEN [st EXCEPT !.sw.files_ready_for_upload =
                        Append(@, st.sw.current_filename)]
    ELSE st

CloseCurrent(st) ==
    IF st.sw.current_file # "None"
    THEN [st EXCEPT !.sw.current_file = "closed",
                    !.handles = @ \ {st.sw.current_filename},
                    !.sw.files_ready_for_upload =
                        IF st.sw.s3_bucket
                        THEN Append(@, st.sw.current_filename) ELSE @]
    ELSE st

OpenNextFile_mut_keepcount(st) ==
    LET s1   == CloseCurrent(st)
        name == PartSuffix(s1.sw.part_num)
    IN  [s1 EXCEPT !.sw.current_filename = name,
                   !.sw.current_file = "open",
                   !.sw.part_num = @ + 1,
                   !.handles = @ \cup {name},
                   !.disk = [n \in DOMAIN s1.disk \cup {name} |->
                                IF n = name THEN <<>> ELSE s1.disk[n]]]

SplitFileWriter_open_next_file(st) ==
    LET s1   == CloseCurrent(st)
        name == PartSuffix(s1.sw.part_num)
    IN  [s1 EXCEPT !.sw.current_filename = name,
                   !.sw.current_file = "open",
                   !.sw.part_num = @ + 1,
                   !.sw.bytes_written_current = 0,
                   !.handles = @ \cup {name},
                   !.disk = [n \in DOMAIN s1.disk \cup {name} |->
                                IF n = name THEN <<>> ELSE s1.disk[n]]]

\* self._open_next_file() called from a write() that is st.depth frames
\* deep.  With the stack used up the call raises RecursionError: either on
\* entry, or (C calls counted) at its self.current_file.close(), which has
\* closed the handle by then; the name is not queued in either case.
CallOpenNextFile(st) ==
    IF st.depth < RecursionLimit THEN SplitFileWriter_open_next_file(st)
    ELSE IF st.c_calls /\ st.sw.current_file # "None"
    THEN [st EXCEPT !.err = "RecursionError",
                    !.sw.current_file = "closed",
                    !.handles = @ \ {st.sw.current_filename}]
    ELSE [st EXCEPT !.err = "RecursionError"]

\* if self.bytes_written_current + data_len > self.split_size
ExceedsSplit_mut_geq(w, data_len) ==
    w.bytes_written_current + data_len >= w.split_size

ExceedsSplit(w, data_len) ==
    w.bytes_written_current + data_len > w.split_size

\* Each call of write() takes one more frame; the exception of a nested
\* call passes through the callers unhandled.
RECURSIVE SplitFileWriter_write(_, _)
SplitFileWriter_write(st, data) ==
    LET s0 == [st EXCEPT !.depth = @ + 1]
        s1 == IF s0.sw.current_file = "None"
              THEN CallOpenNextFile(s0) ELSE s0
        data_len == Len(data)
    IN  IF s1.err # "ok" THEN s1
        ELSE IF ExceedsSplit(s1.sw, data_len)
        THEN LET remaining_space ==
                     s1.sw.split_size - s1.sw.bytes_written_current
                 s2 == FileWrite(s1, Take(data, remaining_space))
                 s3 == IF s2.err # "ok" THEN s2 ELSE CallOpenNextFile(s2)
             IN  IF s3.err # "ok" THEN s3
                 ELSE SplitFileWriter_write(s3, Drop(data, remaining_space))
        ELSE LET s2 == FileWrite(s1, data)
             IN  IF s2.err # "ok" THEN s2
                 ELSE [s2 EXCEPT !.sw.bytes_written_current = @ + data_len,
                                 !.sw.total_bytes_written = @ + data_len]

SplitFileWriter_close(st) == CloseCurrent(st)

get_part_count(w) == w.part_num
is_single_file(w) == w.part_num = 1

\* ---------------------------------------------------- ParallelGzipWriter
\* threads is at least 1 here; chunk_size is fixed by __init__.
ParallelGzipWriter_init(threads) ==
    [ chunk_size |-> ChunkSize,
      buffer     |-> <<>>,
      workers    |-> threads,
      futures    |-> <<>> ]

NoCall == [op |-> "none", future |-> 0]
NoHist == [closed |-> FALSE, firstFail |-> 0, errors |-> 0, failures |-> 0]

\* The compressor is not part of the run.
GzUnused ==
    /\ gz = ParallelGzipWriter_init(1)
    /\ executor = [shutdown |-> FALSE, tasks |-> <<>>]
    /\ pc = "idle"
    /\ call = NoCall
    /\ gzErr = "ok"
    /\ input = <<>>
    /\ sunk = <<>>
    /\ hist = NoHist

\* _compress_chunk: one complete gzip member per chunk.  A member is
\* modelled as the chunk's length followed by the chunk, which is what a
\* reader needs to find the member's end and its content.
compress_chunk(data) == <<Len(data)>> \o data

\* Reading concatenated members back from the start; <<-1>> marks a
\* stream that is cut short inside a member.
RECURSIVE decompress(_)
decompress(stream) ==
    IF stream = <<>> THEN <<>>
    ELSE IF Len(stream) < stream[1] + 1 THEN <<-1>>
    ELSE SubSeq(stream, 2, stream[1] + 1)
             \o decompress(Drop(stream, stream[1] + 1))

\* if len(self.futures) > self.workers * 2
OverThreshold_mut_late(g) == Len(g.futures) > g.workers * 2 + 1

OverThreshold(g) == Len(g.futures) > g.workers * 2

\* _flush_buffer up to its call of _drain_futures.  out is "return" (it
\* returned), "drain" (it goes on into _drain_futures) or "RuntimeError"
\* (submit on an executor that was shut down).
flush_buffer_mut_noguard(g, ex) ==
    LET data == g.buffer
        g1   == [g EXCEPT !.buffer = <<>>]
    IN  IF ex.shutdown
        THEN [gz |-> g1, executor |-> ex, out |-> "RuntimeError"]
        ELSE LET ex1 == [ex EXCEPT !.tasks =
                            Append(@, [data |-> data, state |-> "queued"])]
                 g2  == [g1 EXCEPT !.futures = Append(@, Len(ex1.tasks))]
             IN  [gz |-> g2, executor |-> ex1,
                  out |-> IF Len(g2.futures) > g2.workers * 2
                          THEN "drain" ELSE "return"]

flush_buffer(g, ex) ==
    LET data == g.buffer
        g1   == [g EXCEPT !.buffer = <<>>]
    IN  IF data = <<>> THEN [gz |-> g1, executor |-> ex, out |-> "return"]
        ELSE IF ex.shutdown
        THEN [gz |-> g1, executor |-> ex, out |-> "RuntimeError"]
        ELSE LET ex1 == [ex EXCEPT !.tasks =
                            Append(@, [data |-> data, state |-> "queued"])]
                 g2  == [g1 EXCEPT !.futures = Append(@, Len(ex1.tasks))]
             IN  [gz |-> g2, executor |-> ex1,
                  out |-> IF OverThreshold(g2) THEN "drain" ELSE "return"]

\* future = self.futures.pop(0): the position popped
PopIndex_mut_last(futures) == Len(futures)

PopIndex(futures) == 1

RemoveAt(seq, i) == SubSeq(seq, 1, i - 1) \o SubSeq(seq, i + 1, Len(seq))

\* --------------------------------------------------- MultiPartFileReader
\* Python's order on strings, on the digit suffixes of the part names.
RECURSIVE LexLess(_, _)
LexLess(a, b) ==
    IF Len(a) = 0 THEN Len(b) > 0
    ELSE IF Len(b) = 0 THEN FALSE
    ELSE IF a[1] # b[1] THEN a[1] < b[1]
    ELSE LexLess(Tail(a), Tail(b))

\* sorted(glob.glob(file_pattern)) over the names on the disk.  Strings
\* are compared character by character and a proper prefix comes first
\* (LexLess), so the order is: the empty name, then for each first
\* character in turn the names that start with it, ordered by their rest.
Prefixed(c, rest) == [i \in 1..Len(rest) |-> <<c>> \o rest[i]]

RECURSIVE sorted(_)
RECURSIVE SortedFrom(_, _)
SortedFrom(names, c) ==
    IF c > 9 THEN <<>>
    ELSE Prefixed(c, sorted({Tail(x) : x \in {y \in names : Head(y) = c}}))
             \o SortedFrom(names, c + 1)

sorted(names) ==
    IF names = {} THEN <<>>
    ELSE (IF <<>> \in names THEN << <<>> >> ELSE <<>>)
             \o SortedFrom(names \ {<<>>}, 0)

MultiPartFileReader_init_mut_nocheck(d) ==
    [ rd   |-> [ files |-> sorted(DOMAIN d), current_idx |-> 0,
                 current_file |-> "open", pos |-> 0, open_files |-> {0} ],
      err  |-> "ok",
      data |-> <<>> ]

\* The reader before construction (no object exists).  open_files is the
\* set of the indices in `files` of the files the reader has an open handle
\* on.
NoReader ==
    [ files |-> <<>>, current_idx |-> 0, current_file |-> "None", pos |-> 0,
      open_files |-> {} ]

\* A reader state: the object, the pending exception, the data read.
ReadSt(r, e, data) == [rd |-> r, err |-> e, data |-> data]

MultiPartFileReader_init(d) ==
    LET files == sorted(DOMAIN d)
    IN  IF files = <<>>
        THEN ReadSt(NoReader, "FileNotFoundError", <<>>)
        ELSE ReadSt([ files |-> files, current_idx |-> 0,
                      current_file |-> "open", pos |-> 0,
                      open_files |-> {0} ], "ok", <<>>)

\* self.current_file.read(size) on files[current_idx] (0-based); size -1
\* reads to the end of the file; ValueError on a closed file.
FileRead(d, st, size) ==
    IF st.rd.current_file # "open"
    THEN [st EXCEPT !.err = "ValueError"]
    ELSE LET content == d[st.rd.files[st.rd.current_idx + 1]]
             avail   == Len(content) - st.rd.pos
             n       == IF size = -1 \/ size > avail THEN avail ELSE size
         IN  [st EXCEPT !.rd.pos = @ + n,
                        !.data = @ \o SubSeq(content, st.rd.pos + 1,
                                             st.rd.pos + n)]

OpenNextPart_mut_noclose(st) ==
    [st EXCEPT !.rd.current_idx = @ + 1,
               !.rd.current_file = "open",
               !.rd.pos = 0,
               !.rd.open_files = @ \cup {st.rd.current_idx + 1}]

\* close the current file, advance the index, open the next file
OpenNextPart(st) ==
    [st EXCEPT !.rd.current_idx = @ + 1,
               !.rd.current_file = "open",
               !.rd.pos = 0,
               !.rd.open_files = (@ \ {st.rd.current_idx})
                                     \cup {st.rd.current_idx + 1}]

\* remaining = size - len(data)
Remaining_mut_whole(size, data) == size

Remaining(size, data) == size - Len(data)

ReadAll_mut_onefile(d, st) ==
    IF ~(st.rd.current_idx < Len(st.rd.files)) THEN st
    ELSE FileRead(d, st, -1)

\* the size == -1 branch of read
RECURSIVE ReadAll(_, _)
ReadAll(d, st) ==
    IF ~(st.rd.current_idx < Len(st.rd.files)) THEN st
    ELSE LET s1 == FileRead(d, st, -1)
         IN  IF s1.err # "ok" THEN s1
             ELSE IF s1.rd.current_idx < Len(s1.rd.files) - 1
                  THEN ReadAll(d, OpenNextPart(s1))
                  ELSE s1

ReadMore_mut_once(d, st, size) ==
    IF Len(st.data) < size /\ st.rd.current_idx < Len(st.rd.files) - 1
    THEN LET s1 == OpenNextPart(st)
         IN  FileRead(d, s1, Remaining(size, s1.data))
    ELSE st

\* the while loop of the bounded branch of read
RECURSIVE ReadMore(_, _, _)
ReadMore(d, st, size) ==
    IF Len(st.data) < size /\ st.rd.current_idx < Len(st.rd.files) - 1
    THEN LET s1 == OpenNextPart(st)
             remaining == Remaining(size, s1.data)
         IN  ReadMore(d, FileRead(d, s1, remaining), size)
    ELSE st

MultiPartFileReader_read(d, r, size) ==
    IF size = -1
    THEN ReadAll(d, ReadSt(r, "ok", <<>>))
    ELSE LET s1 == FileRead(d, ReadSt(r, "ok", <<>>), size)
         IN  IF s1.err # "ok" THEN s1 ELSE ReadMore(d, s1, size)

MultiPartFileReader_close_mut_leaveopen(r) == r

MultiPartFileReader_close(r) ==
    IF r.current_file # "None"
    THEN [r EXCEPT !.current_file = "closed",
                   !.open_files = @ \ {r.current_idx}]
    ELSE r

\* --------------------------------------------------- the reader on its own
\* Segments of the given lengths, named as SplitFileWriter names them,
\* holding the bytes 1, 2, 3, ... in order.
RECURSIVE SumTo(_, _)
SumTo(lens, k) == IF k = 0 THEN 0 ELSE SumTo(lens, k - 1) + lens[k]

Layout(lens) ==
    [ name \in {PartSuffix(i - 1) : i \in 1..Len(lens)} |->
        LET i == CHOOSE j \in 1..Len(lens) : PartSuffix(j - 1) = name
        IN  [k \in 1..lens[i] |-> SumTo(lens, i - 1) + k] ]

SegLayouts ==
    UNION { [1..n -> 0..MaxSegLen] : n \in 0..MaxSegs }

ReaderInit ==
    /\ \E lens \in SegLayouts : disk = Layout(lens)
    /\ sw = SplitFileWriter_init(1, FALSE)
    /\ swErr = "ok"
    /\ written = <<>>
    /\ swCloses = 0
    /\ swLast = "init"
    /\ handles = {}
    /\ rd = NoReader
    /\ rdErr = "ok"
    /\ got = <<>>
    /\ rdLast = [op |-> "none", size |-> 0, data |-> <<>>]
    /\ crypto = NoCrypto
    /\ fast = NoStream
    /\ GzUnused

ReaderOpen ==
    /\ rdLast.op = "none"
    /\ LET r == MultiPartFileReader_init(disk)
       IN  /\ rd' = r.rd
           /\ rdErr' = r.err
    /\ rdLast' = [op |-> "init", size |-> 0, data |-> <<>>]
    /\ UNCHANGED <<got, disk, sinkVars, gzVars, crypto, fast>>

ReaderRead(size) ==
    /\ rdLast.op # "none"
    /\ rd.files # <<>>
    /\ LET r == MultiPartFileReader_read(disk, rd, size)
       IN  /\ rd' = r.rd
           /\ rdErr' = r.err
           /\ got' = IF r.err = "ok" THEN got \o r.data ELSE got
           /\ rdLast' = [op |-> "read", size |-> size,
                         data |-> IF r.err = "ok" THEN r.data ELSE <<>>]
    /\ UNCHANGED <<disk, sinkVars, gzVars, crypto, fast>>

ReaderClose ==
    /\ rdLast.op # "none"
    /\ rd.files # <<>>
    /\ rd' = MultiPartFileReader_close(rd)
    /\ rdErr' = "ok"
    /\ rdLast' = [op |-> "close", size |-> 0, data |-> <<>>]
    /\ UNCHANGED <<got, disk, sinkVars, gzVars, crypto, fast>>

ReadSizes == {-1} \cup 0..MaxRead

ReaderNext ==
    \/ ReaderOpen
    \/ \E size \in ReadSizes : ReaderRead(size)
    \/ ReaderClose

SpecReader == ReaderInit /\ [][ReaderNext]_vars

\* ---------------------------------------------- properties of the reader
\* The segments concatenated in the order of the reader's file list.
RECURSIVE ConcatFiles(_, _, _)
ConcatFiles(d, files, n) ==
    IF n = 0 THEN <<>>
    ELSE ConcatFiles(d, files, n - 1) \o d[files[n]]

Stream == ConcatFiles(disk, rd.files, Len(rd.files))

\* What read(size) returns on one unsplit file holding `s`, at offset `off`.
UnsplitRead(s, off, size) ==
    IF size = -1 \/ off + size > Len(s)
    THEN SubSeq(s, off + 1, Len(s))
    ELSE SubSeq(s, off + 1, off + size)

\* C7: every read returns what the same read of one unsplit stream holding
\* the segments in list order would return, so the data returned so far is
\* always the stream up to the current offset, and all of it after a read
\* that hits the end.
C7_BoundaryTransparent ==
    (rdLast.op = "read" /\ rdErr = "ok") =>
        /\ got = Take(Stream, Len(got))
        /\ rdLast.data =
              UnsplitRead(Stream, Len(got) - Len(rdLast.data), rdLast.size)
        /\ (rdLast.size = -1 \/ Len(rdLast.data) < rdLast.size)
               => got = Stream

\* A bounded read larger than a segment has crossed an empty segment and
\* ended inside the last one.
C7_Witness ==
    /\ rdLast.op = "read" /\ rdErr = "ok"
    /\ Len(rd.files) = 3
    /\ Len(disk[rd.files[2]]) = 0
    /\ Len(disk[rd.files[1]]) = 1
    /\ rdLast.size = 2 /\ Len(rdLast.data) = 2
    /\ rd.current_idx = 2
    /\ Len(got) = 3

\* ----------------------------------------------------- the sink on its own
SinkInit ==
    /\ \E c \in 1..MaxSplit, b \in BOOLEAN : sw = SplitFileWriter_init(c, b)
    /\ disk = << >>
    /\ swErr = "ok"
    /\ written = <<>>
    /\ swCloses = 0
    /\ swLast = "init"
    /\ handles = {}
    /\ rd = NoReader
    /\ rdErr = "ok"
    /\ got = <<>>
    /\ rdLast = [op |-> "none", size |-> 0, data |-> <<>>]
    /\ crypto = NoCrypto
    /\ fast = NoStream
    /\ GzUnused

SinkWrite(n) ==
    /\ Len(written) + n <= MaxInput
    /\ LET data == NextBytes(written, n)
           r    == SplitFileWriter_write(SinkSt(sw, disk, "ok"), data)
       IN  /\ sw' = r.sw
           /\ disk' = r.disk
           /\ swErr' = r.err
           /\ handles' = r.handles
           /\ written' = written \o data
    /\ swLast' = "write"
    /\ UNCHANGED <<swCloses, rdVars, crypto, fast, gzVars>>

SinkClose ==
    /\ swCloses < MaxCloses
    /\ LET r == SplitFileWriter_close(SinkSt(sw, disk, "ok"))
       IN  /\ sw' = r.sw
           /\ disk' = r.disk
           /\ swErr' = r.err
           /\ handles' = r.handles
    /\ swCloses' = swCloses + 1
    /\ swLast' = "close"
    /\ UNCHANGED <<written, rdVars, crypto, fast, gzVars>>

SinkNext ==
    \/ \E n \in 0..MaxWrite : SinkWrite(n)
    \/ SinkClose

SpecSink == SinkInit /\ [][SinkNext]_vars

\* ------------------------------------------------ properties of the sink
\* The parts 0..n-1 of the disk, concatenated in index order.
RECURSIVE ConcatParts(_, _)
ConcatParts(d, n) ==
    IF n = 0 THEN <<>>
    ELSE ConcatParts(d, n - 1) \o d[PartSuffix(n - 1)]

\* Exactly the parts 0..part_num-1 exist.
PartsNumbered == DOMAIN disk = {PartSuffix(i) : i \in 0..(sw.part_num - 1)}

C9_TotalBytesWritten ==
    swCloses = 0 => sw.total_bytes_written = Len(written)

\* C10 as claimed: writes of total length at most split_size followed by
\* close leave exactly one segment, part count 1 and is_single_file();
\* a total above split_size makes is_single_file() false.
C10_Original ==
    (swLast = "close" /\ swCloses = 1) =>
        /\ Len(written) <= sw.split_size =>
              /\ Cardinality(DOMAIN disk) = 1
              /\ get_part_count(sw) = 1
              /\ is_single_file(sw)
        /\ Len(written) > sw.split_size => ~is_single_file(sw)

\* C10 amended: the same for a total length of at least 1 and at most
\* split_size.
C10_SingleSegment ==
    (swLast = "close" /\ swCloses = 1) =>
        /\ Len(written) \in 1..sw.split_size =>
              /\ Cardinality(DOMAIN disk) = 1
              /\ get_part_count(sw) = 1
              /\ is_single_file(sw)
        /\ Len(written) > sw.split_size => ~is_single_file(sw)

\* Closed with exactly split_size bytes written in two writes.
C10_Witness ==
    /\ swLast = "close" /\ swCloses = 1
    /\ Len(written) = sw.split_size
    /\ sw.split_size >= 2
    /\ is_single_file(sw)

\* ------------------------------------------------------------ the pipeline
\* ParallelGzipWriter over SplitFileWriter as run_backup builds them, then
\* MultiPartFileReader over the parts written.
Init ==
    /\ \E c \in 1..MaxSplit, b \in BOOLEAN : sw = SplitFileWriter_init(c, b)
    /\ disk = << >>
    /\ swErr = "ok"
    /\ written = <<>>
    /\ swCloses = 0
    /\ swLast = "init"
    /\ handles = {}
    /\ rd = NoReader
    /\ rdErr = "ok"
    /\ got = <<>>
    /\ rdLast = [op |-> "none", size |-> 0, data |-> <<>>]
    /\ crypto = NoCrypto
    /\ fast = NoStream
    /\ \E w \in 1..MaxWorkers : gz = ParallelGzipWriter_init(w)
    /\ executor = [shutdown |-> FALSE, tasks |-> <<>>]
    /\ pc = "idle"
    /\ call = NoCall
    /\ gzErr = "ok"
    /\ input = <<>>
    /\ sunk = <<>>
    /\ hist = NoHist

Raise(e) ==
    /\ pc' = "idle"
    /\ gzErr' = e
    /\ hist' = [hist EXCEPT !.errors = @ + 1,
                   !.firstFail = IF e = "CompressError" /\ @ = 0
                                 THEN call.future ELSE @]

\* if self.buffer.tell() >= self.chunk_size
BufferFull_mut_gt(g) == Len(g.buffer) > g.chunk_size

BufferFull(g) == Len(g.buffer) >= g.chunk_size

\* write(data), up to its return or to the head of the drain loop.
GzWrite(n) ==
    /\ pc = "idle"
    /\ rdLast.op = "none"
    /\ Len(input) + n <= MaxGzInput
    /\ LET data == NextBytes(input, n)
           g1   == [gz EXCEPT !.buffer = @ \o data]
           f    == IF BufferFull(g1)
                   THEN flush_buffer(g1, executor)
                   ELSE [gz |-> g1, executor |-> executor, out |-> "return"]
       IN  /\ input' = input \o data
           /\ gz' = f.gz
           /\ executor' = f.executor
           /\ call' = [op |-> "write", future |-> 0]
           /\ IF f.out = "drain"
              THEN pc' = "drain" /\ gzErr' = "running" /\ UNCHANGED hist
              ELSE IF f.out = "return"
              THEN pc' = "idle" /\ gzErr' = "ok" /\ UNCHANGED hist
              ELSE Raise(f.out)
    /\ UNCHANGED <<sinkVars, disk, rdVars, crypto, fast, sunk>>

\* close(), up to the head of a drain loop: the one _flush_buffer enters
\* over the threshold empties the list, so that the loop of close() itself
\* then ends at once; both are the loop the thread is in from here.
GzClose ==
    /\ pc = "idle"
    /\ rdLast.op = "none"
    /\ swCloses < MaxCloses
    /\ LET f == flush_buffer(gz, executor)
       IN  /\ gz' = f.gz
           /\ executor' = f.executor
           /\ call' = [op |-> "close", future |-> 0]
           /\ IF f.out = "RuntimeError"
              THEN Raise(f.out)
              ELSE pc' = "drain" /\ gzErr' = "running" /\ UNCHANGED hist
    /\ UNCHANGED <<sinkVars, disk, rdVars, crypto, fast, input, sunk>>

\* while self.futures: future = self.futures.pop(0)
DrainPop ==
    /\ pc = "drain"
    /\ gz.futures # <<>>
    /\ call' = [call EXCEPT !.future = gz.futures[PopIndex(gz.futures)]]
    /\ gz' = [gz EXCEPT !.futures = RemoveAt(@, PopIndex(gz.futures))]
    /\ pc' = "wait"
    /\ UNCHANGED <<sinkVars, disk, rdVars, crypto, fast, executor, gzErr, input, sunk, hist>>

\* self.sink.write(future.result()): waits for the popped chunk, then
\* writes its frame or re-raises the worker's exception.
DrainResult ==
    /\ pc = "wait"
    /\ LET task == executor.tasks[call.future]
       IN  \/ /\ task.state = "done"
              /\ LET frame == compress_chunk(task.data)
                     r == SplitFileWriter_write(SinkSt(sw, disk, "ok"), frame)
                 IN  /\ sw' = r.sw
                     /\ disk' = r.disk
                     /\ swErr' = r.err
                     /\ handles' = r.handles
                     /\ written' = written \o frame
                     /\ swLast' = "write"
                     /\ sunk' = Append(sunk, call.future)
                     /\ IF r.err = "ok"
                        THEN pc' = "drain" /\ UNCHANGED <<gzErr, hist>>
                        ELSE Raise(r.err)
              /\ UNCHANGED swCloses
           \/ /\ task.state = "failed"
              /\ Raise("CompressError")
              /\ UNCHANGED <<sinkVars, disk, sunk>>
    /\ UNCHANGED <<rdVars, crypto, fast, gz, executor, call, input>>

\* The drain loop ends: _flush_buffer and write() return, or close() goes
\* on to executor.shutdown() (which waits for the tasks) and sink.close().
DrainReturn ==
    /\ pc = "drain"
    /\ gz.futures = <<>>
    /\ pc' = "idle"
    /\ gzErr' = "ok"
    /\ IF call.op = "close"
       THEN /\ \A i \in 1..Len(executor.tasks) :
                   executor.tasks[i].state \in {"done", "failed"}
            /\ executor' = [executor EXCEPT !.shutdown = TRUE]
            /\ LET r == SplitFileWriter_close(SinkSt(sw, disk, "ok"))
               IN  /\ sw' = r.sw
                   /\ disk' = r.disk
                   /\ swErr' = r.err
                   /\ handles' = r.handles
            /\ swCloses' = swCloses + 1
            /\ swLast' = "close"
            /\ hist' = [hist EXCEPT !.closed = TRUE]
            /\ UNCHANGED written
       ELSE UNCHANGED <<sinkVars, disk, executor, hist>>
    /\ UNCHANGED <<rdVars, crypto, fast, gz, call, input, sunk>>

Running == {i \in 1..Len(executor.tasks) : executor.tasks[i].state = "running"}

WorkerStart_mut_oneless(i) ==
    /\ executor.tasks[i].state = "queued"
    /\ \A j \in 1..(i - 1) : executor.tasks[j].state # "queued"
    /\ Cardinality(Running) < gz.workers - 1
    /\ executor' = [executor EXCEPT !.tasks[i].state = "running"]
    /\ UNCHANGED <<sinkVars, disk, rdVars, crypto, fast, gz, pc, call, gzErr, input, sunk, hist>>

\* A pool thread takes the oldest queued task.
WorkerStart(i) ==
    /\ executor.tasks[i].state = "queued"
    /\ \A j \in 1..(i - 1) : executor.tasks[j].state # "queued"
    /\ Cardinality(Running) < gz.workers
    /\ executor' = [executor EXCEPT !.tasks[i].state = "running"]
    /\ UNCHANGED <<sinkVars, disk, rdVars, crypto, fast, gz, pc, call, gzErr, input, sunk, hist>>

WorkerFinish_mut_sinkwrite(i, ok) ==
    /\ executor.tasks[i].state = "running"
    /\ ok \/ hist.failures < MaxFailures
    /\ executor' = [executor EXCEPT
                       !.tasks[i].state = IF ok THEN "done" ELSE "failed"]
    /\ hist' = [hist EXCEPT !.failures = IF ok THEN @ ELSE @ + 1]
    /\ LET r == SplitFileWriter_write(SinkSt(sw, disk, "ok"),
                                      compress_chunk(executor.tasks[i].data))
       IN  /\ sw' = r.sw
           /\ disk' = r.disk
           /\ swErr' = r.err
           /\ handles' = r.handles
    /\ UNCHANGED <<written, swCloses, swLast, rdVars, crypto, fast,
                   gz, pc, call, gzErr, input, sunk>>

\* _compress_chunk returns, or raises, in a pool thread.
WorkerFinish(i, ok) ==
    /\ executor.tasks[i].state = "running"
    /\ ok \/ hist.failures < MaxFailures
    /\ executor' = [executor EXCEPT
                       !.tasks[i].state = IF ok THEN "done" ELSE "failed"]
    /\ hist' = [hist EXCEPT !.failures = IF ok THEN @ ELSE @ + 1]
    /\ UNCHANGED <<sinkVars, disk, rdVars, crypto, fast, gz, pc, call, gzErr, input, sunk>>

\* run_backup's split_writer.close() after compressor.close() has returned
SplitClose ==
    /\ pc = "idle"
    /\ hist.closed
    /\ rdLast.op = "none"
    /\ SinkClose

\* The restore side: a reader over the parts of a backup that was closed
\* without any error, reading block by block or all at once.
RestoreOpen == pc = "idle" /\ hist.closed /\ hist.errors = 0 /\ ReaderOpen

RestoreRead(size) == ReaderRead(size)

RestoreSizes == {-1, MaxRead}

Next ==
    \/ \E n \in 0..MaxGzWrite : GzWrite(n)
    \/ GzClose
    \/ DrainPop
    \/ DrainResult
    \/ DrainReturn
    \/ \E i \in 1..Len(executor.tasks) : WorkerStart(i)
    \/ \E i \in 1..Len(executor.tasks), ok \in BOOLEAN : WorkerFinish(i, ok)
    \/ SplitClose
    \/ RestoreOpen
    \/ \E size \in RestoreSizes : RestoreRead(size)

Spec == Init /\ [][Next]_vars

\* -------------------------------------------- properties of the pipeline
\* The frames of the given chunks of the executor, concatenated in order:
\* what one thread compressing them one after the other produces.
RECURSIVE FramesOf(_, _)
FramesOf(tasks, ids) ==
    IF ids = <<>> THEN <<>>
    ELSE compress_chunk(tasks[Head(ids)].data) \o FramesOf(tasks, Tail(ids))

UpTo(n) == [i \in 1..n |-> i]

\* C1: whatever the worker count and the order in which the workers
\* finish, the frames written to the sink are the frames of the chunks in
\* submission order: the chunks written are in increasing submission order,
\* with no error they are the first chunks without a gap, and after a close
\* without error the sink received the serial compression of all chunks.
C1_FramesInSubmissionOrder ==
    /\ \A i \in 1..(Len(sunk) - 1) : sunk[i] < sunk[i + 1]
    /\ written = FramesOf(executor.tasks, sunk)
    /\ hist.errors = 0 => sunk = UpTo(Len(sunk))
    /\ (hist.closed /\ hist.errors = 0) =>
           written = FramesOf(executor.tasks, UpTo(Len(executor.tasks)))

\* Frame 1 is written and the thread waits for chunk 2, which is still
\* being compressed while chunk 3 is already finished.
C1_Witness ==
    /\ sunk = <<1>>
    /\ pc = "wait" /\ call.future = 2
    /\ Len(executor.tasks) >= 3
    /\ executor.tasks[2].state = "running"
    /\ executor.tasks[3].state = "done"

\* A read has reached the end of the last segment.
AtEnd ==
    /\ rdLast.op = "read"
    /\ rdLast.size = -1 \/ Len(rdLast.data) < rdLast.size

\* C2: for every input B, the empty one included, written through the
\* compressor into the sink and closed without error, a reader over the
\* segments can be built and what it reads to the end decompresses to B.
C2_RoundTrip ==
    (hist.closed /\ hist.errors = 0 /\ gz.buffer = <<>> /\ rdLast.op # "none")
        => /\ rdErr = "ok"
           /\ AtEnd => decompress(got) = input

\* C4: once the compression of a chunk has failed, the frames written to
\* the sink are those of the chunks before it and nothing else, whatever
\* calls follow.
C4_NothingWrittenAfterFailure ==
    hist.firstFail # 0 => sunk = UpTo(hist.firstFail - 1)

\* C5: when a call raises a worker's failure on a chunk, exactly the
\* frames of all chunks before that chunk have been written to the sink.
C5_FailureRaisedInOrder ==
    (pc = "idle" /\ gzErr = "CompressError") => sunk = UpTo(call.future - 1)

\* C6 as claimed: the pending list never holds more than 2 * workers
\* results, also right after a submission.
C6_Original == Len(gz.futures) <= 2 * gz.workers

\* C6 amended: the pending list never holds more than 2 * workers + 1
\* results, and at most 2 * workers whenever no call is running.
C6_PendingBound ==
    /\ Len(gz.futures) <= 2 * gz.workers + 1
    /\ pc = "idle" => Len(gz.futures) <= 2 * gz.workers

\* A write has drained the list and returned, and more was submitted since.
C6_Witness ==
    /\ pc = "idle" /\ gzErr = "ok" /\ call.op = "write"
    /\ Len(sunk) = 2 * gz.workers + 1
    /\ Len(executor.tasks) = 2 * gz.workers + 2
    /\ Len(gz.futures) = 1

\* --------------------------------------------------------------- crypto.py
\* A string is the sequence of its characters.  A Python value is a record
\* with its type t: [t |-> "None"], [t |-> "str", v |-> characters],
\* [t |-> "bytes", v |-> numbers], [t |-> "dict", ...].
None == [t |-> "None"]
PyStr(chars) == [t |-> "str", v |-> chars]

Whitespace == {" ", "\n", "\t"}
DigitChars == <<"0", "1", "2", "3", "4", "5", "6", "7", "8", "9">>

\* f"{n}" for an int n >= 0
FormatInt(n) == LET d == Digits(n) IN [i \in 1..Len(d) |-> DigitChars[d[i] + 1]]

\* s.startswith(pre)
startswith(s, pre) == Len(pre) <= Len(s) /\ SubSeq(s, 1, Len(pre)) = pre

\* s.replace(old, ''): every occurrence found from the left is removed.
RECURSIVE replace(_, _)
replace(s, old) ==
    IF Len(s) < Len(old) THEN s
    ELSE IF startswith(s, old) THEN replace(Drop(s, Len(old)), old)
    ELSE <<s[1]>> \o replace(Tail(s), old)

\* s.strip()
RECURSIVE strip(_)
strip(s) ==
    IF s = <<>> THEN s
    ELSE IF s[1] \in Whitespace THEN strip(Tail(s))
    ELSE IF s[Len(s)] \in Whitespace THEN strip(SubSeq(s, 1, Len(s) - 1))
    ELSE s

\* The position of the first ch in s, or 0.
find(s, ch) ==
    IF \E i \in 1..Len(s) : s[i] = ch
    THEN CHOOSE i \in 1..Len(s) : s[i] = ch /\ \A j \in 1..(i - 1) : s[j] # ch
    ELSE 0

\* The position of the last ch in s, or 0.
rfind(s, ch) ==
    IF \E i \in 1..Len(s) : s[i] = ch
    THEN CHOOSE i \in 1..Len(s) :
             s[i] = ch /\ \A j \in (i + 1)..Len(s) : s[j] # ch
    ELSE 0

\* for line in f: the lines of a text, each with its newline.
RECURSIVE readlines(_)
readlines(text) ==
    IF text = <<>> THEN <<>>
    ELSE LET i == find(text, "\n")
         IN  IF i = 0 THEN <<text>>
             ELSE <<SubSeq(text, 1, i)>> \o readlines(Drop(text, i))

\* int(s) for a string of digits; -1 stands for ValueError.
RECURSIVE int(_)
int(s) ==
    IF s = <<>> \/ \E i \in 1..Len(s) : \A k \in 1..10 : DigitChars[k] # s[i]
    THEN -1
    ELSE LET last == CHOOSE k \in 0..9 : DigitChars[k + 1] = s[Len(s)]
         IN  IF Len(s) = 1 THEN last
             ELSE 10 * int(SubSeq(s, 1, Len(s) - 1)) + last

\* os.path.dirname(p)
dirname(p) ==
    LET head == SubSeq(p, 1, rfind(p, "/"))
        RECURSIVE rstrip_slash(_)
        rstrip_slash(h) ==
            IF h # <<>> /\ h[Len(h)] = "/"
            THEN rstrip_slash(SubSeq(h, 1, Len(h) - 1)) ELSE h
    IN  IF \A i \in 1..Len(head) : head[i] = "/" THEN head
        ELSE rstrip_slash(head)

SaltKey == <<"s", "a", "l", "t", "=">>
IterationsKey == <<"i", "t", "e", "r", "a", "t", "i", "o", "n", "s", "=">>
AlgorithmLine == <<"a", "l", "g", "o", "r", "i", "t", "h", "m", "=", "A", "E", "S", "-", "2", "5", "6", "-", "C", "B", "C", "\n">>
KdfLine == <<"k", "d", "f", "=", "P", "B", "K", "D", "F", "2", "-", "S", "H", "A", "2", "5", "6", "\n">>
Enc == <<".", "e", "n", "c">>
TarGzEnc == <<".", "t", "a", "r", ".", "g", "z", ".", "e", "n", "c">>
TarBz2Enc == <<".", "t", "a", "r", ".", "b", "z", "2", ".", "e", "n", "c">>
PartStar == <<".", "p", "a", "r", "t", "_", "*">>

\* save_metadata(output_path, salt, iterations) on the file system fs (file
\* name -> text), in a directory that exists: the file system afterwards.
save_metadata(fs, output_path, salt, iterations) ==
    LET metadata_file == output_path \o Enc
        text == SaltKey \o salt \o <<"\n">>
                    \o IterationsKey \o FormatInt(iterations) \o <<"\n">>
                    \o AlgorithmLine \o KdfLine
    IN  [f \in DOMAIN fs \cup {metadata_file} |->
            IF f = metadata_file THEN text ELSE fs[f]]

\* The first lines of load_metadata: the file it reads.  glob gives the
\* matching files in no particular order, so the result is the set of files
\* that enc_files[0] can be; the empty set stands for `return None`.
BasePath(archive_path) ==
    replace(replace(replace(replace(archive_path, PartStar), TarGzEnc),
                    TarBz2Enc), Enc)

metadata_files(fs, archive_path) ==
    LET base_path     == BasePath(archive_path)
        metadata_file == base_path \o Enc
        dir           == dirname(base_path) \o <<"/">>
    IN  IF metadata_file \in DOMAIN fs THEN {metadata_file}
        ELSE {f \in DOMAIN fs :
                 /\ startswith(f, dir)
                 /\ LET name == Drop(f, Len(dir))
                    IN  /\ find(name, "/") = 0
                        /\ Len(name) >= Len(Enc)
                        /\ Drop(name, Len(name) - Len(Enc)) = Enc
                        /\ name[1] # "."}

\* The loop of load_metadata over the lines from the k-th on; acc is the
\* dict built so far, None after an exception.
RECURSIVE ParseLines(_, _, _)
ParseLines(lines, k, acc) ==
    IF k > Len(lines) \/ acc = None THEN acc
    ELSE LET line == strip(lines[k])
         IN  IF startswith(line, SaltKey)
             THEN ParseLines(lines, k + 1,
                      [acc EXCEPT !.salt = PyStr(Drop(line, find(line, "=")))])
             ELSE IF startswith(line, IterationsKey)
             THEN LET n == int(strip(Drop(line, find(line, "="))))
                  IN  ParseLines(lines, k + 1,
                          IF n = -1 THEN None
                          ELSE [acc EXCEPT !.iterations = n])
             ELSE ParseLines(lines, k + 1, acc)

\* load_metadata once the file is found.
read_metadata(fs, metadata_file) ==
    ParseLines(readlines(fs[metadata_file]), 1,
               [t |-> "dict", salt |-> None, iterations |-> DefaultIterations])

\* The outcome of a call: the exception raised ("none" if it returned) and
\* the value returned.
Returned(v) == [exc |-> "none", ret |-> v]
Raised(e) == [exc |-> e, ret |-> None]

HexChars == <<"0", "1", "2", "3", "4", "5", "6", "7", "8", "9",
              "a", "b", "c", "d", "e", "f">>

\* bytes.hex(): two characters for a byte.
bytes_hex(b) ==
    [i \in 1..(2 * Len(b)) |->
        IF i % 2 = 1 THEN HexChars[(b[(i + 1) \div 2] \div 16) + 1]
        ELSE HexChars[(b[i \div 2] % 16) + 1]]

\* bytes.fromhex(s): the bytes, or ValueError.
bytes_fromhex(s) ==
    LET val(c) == (CHOOSE k \in 1..16 : HexChars[k] = c) - 1
    IN  IF Len(s) % 2 = 1 \/ \E i \in 1..Len(s) : \A k \in 1..16 : HexChars[k] # s[i]
        THEN Raised("ValueError")
        ELSE Returned([t |-> "bytes",
                       v |-> [i \in 1..(Len(s) \div 2) |->
                                 16 * val(s[2 * i - 1]) + val(s[2 * i])]])

\* v.hex() on a Python value: bytes have the method, str has not.
hex(v) ==
    IF v.t = "bytes" THEN Returned(PyStr(bytes_hex(v.v)))
    ELSE Raised("AttributeError")

\* generate_salt(), token being what secrets.token_bytes(16) gives.
generate_salt(token) == hex([t |-> "bytes", v |-> token]).ret

\* What openssl writes for a salt; the cipher text itself is left abstract.
Ciphertext(salt) == <<"Salted__">> \o salt

\* encrypt_file(input_file, output_file, password, salt, iterations): its
\* outcome.  have_openssl is the result of check_openssl() and returncode
\* that of the openssl process.
encrypt_file(salt, token, have_openssl, returncode) ==
    IF ~have_openssl THEN Raised("RuntimeError")
    ELSE LET parsed == IF salt = None
                       THEN hex(generate_salt(token))
                       ELSE IF Len(salt.v) # SaltHexLen
                            THEN Raised("ValueError")
                            ELSE LET b == bytes_fromhex(salt.v)
                                 IN  IF b.exc # "none" THEN b ELSE Returned(salt)
         IN  IF parsed.exc # "none" THEN parsed
             ELSE IF returncode # 0 THEN Raised("RuntimeError")
             ELSE parsed

\* The salt step of fast_backup: salt_hex afterwards.
fast_backup_salt(encrypt_enabled, salt_hex, token) ==
    IF encrypt_enabled /\ salt_hex = None
    THEN hex(generate_salt(token))
    ELSE Returned(salt_hex)

\* ------------------------------------------------ further sink properties
\* C11: as long as the data passed to write totals zero bytes (no call, or
\* only calls with empty data), no segment is created: part_num is 0, no
\* file is open and the disk holds no part.
C11_NoSegmentForZeroBytes ==
    Len(written) = 0 =>
        /\ sw.part_num = 0
        /\ sw.current_file = "None"
        /\ DOMAIN disk = {}

\* C13: close() on a sink that was closed before leaves the part count,
\* the segment contents and files_ready_for_upload as they were.
C13_SecondCloseChangesNothing ==
    [][ (swCloses >= 1 /\ swLast' = "close" /\ swCloses' = swCloses + 1) =>
            /\ sw'.part_num = sw.part_num
            /\ disk' = disk
            /\ sw'.files_ready_for_upload = sw.files_ready_for_upload ]_vars

\* C14: once close() has been called, every write() raises, creates no
\* segment and adds no byte to any segment.
C14_WriteAfterCloseRejected ==
    [][ (swCloses >= 1 /\ swLast' = "write") =>
            /\ swErr' # "ok"
            /\ sw'.part_num = sw.part_num
            /\ disk' = disk ]_vars

\* The names queued for upload.
Ready == {sw.files_ready_for_upload[i] :
              i \in 1..Len(sw.files_ready_for_upload)}

\* C15: every name in files_ready_for_upload is a segment whose handle is
\* closed, it is not the segment being written, and no later step adds a
\* byte to it.
C15_ReadyMeansClosed ==
    /\ [](\A n \in Ready :
             /\ n \in DOMAIN disk
             /\ n \notin handles
             /\ ~(sw.current_file = "open" /\ sw.current_filename = n))
    /\ [][\A n \in Ready : disk'[n] = disk[n]]_vars

\* Two segments are queued and a third one is open and has taken bytes.
C15_Witness ==
    /\ sw.s3_bucket
    /\ Len(sw.files_ready_for_upload) >= 2
    /\ sw.current_file = "open"
    /\ swLast = "write"
    /\ Len(disk[sw.current_filename]) >= 1

\* -------------------------------------------- the sink with long writes
\* One write may be long enough, against the capacity, to use up the stack.
BigWrite(n, c_calls) ==
    /\ Len(written) + n <= MaxBigInput
    /\ LET data == NextBytes(written, n)
           r    == SplitFileWriter_write(
                       [SinkSt(sw, disk, "ok") EXCEPT !.c_calls = c_calls],
                       data)
       IN  /\ sw' = r.sw
           /\ disk' = r.disk
           /\ swErr' = r.err
           /\ handles' = r.handles
           /\ written' = written \o data
    /\ swLast' = "write"
    /\ UNCHANGED <<swCloses, rdVars, crypto, fast, gzVars>>

BigNext ==
    \/ \E n \in 0..MaxBigWrite, c \in BOOLEAN : BigWrite(n, c)
    \/ SinkClose

SpecBigWrite == SinkInit /\ [][BigNext]_vars

\* C16: a write() on an open sink of capacity at least 1 returns normally
\* with all its bytes placed, however many segments it spans.
C16_LongWriteCompletes ==
    (swLast = "write" /\ swCloses = 0 /\ sw.split_size >= 1) =>
        /\ swErr = "ok"
        /\ PartsNumbered
        /\ ConcatParts(disk, sw.part_num) = written

\* ------------------------------------------------------------ construction
\* The sink before construction (no object exists).
NoSink == SplitFileWriter_init(0, FALSE)

\* ThreadPoolExecutor(max_workers): ValueError unless max_workers > 0.
ThreadPoolExecutor_init(max_workers) ==
    IF max_workers <= 0 THEN "ValueError" ELSE "ok"

\* ParallelGzipWriter(sink, threads=threads) on a machine with cpu_count
\* processors: self.workers = threads or os.cpu_count().
ParallelGzipWriter_new(threads, cpu_count) ==
    LET workers == IF threads = 0 THEN cpu_count ELSE threads
        e       == ThreadPoolExecutor_init(workers)
    IN  [ gz  |-> IF e = "ok" THEN ParallelGzipWriter_init(workers) ELSE gz,
          err |-> e ]

ConfigInit ==
    /\ sw = NoSink
    /\ disk = << >>
    /\ swErr = "ok"
    /\ written = <<>>
    /\ swCloses = 0
    /\ swLast = "none"
    /\ handles = {}
    /\ rd = NoReader
    /\ rdErr = "ok"
    /\ got = <<>>
    /\ rdLast = [op |-> "none", size |-> 0, data |-> <<>>]
    /\ crypto = NoCrypto
    /\ fast = NoStream
    /\ GzUnused

\* split_writer = SplitFileWriter(output_prefix, split_bytes, s3_bucket, ...)
NewSplitFileWriter(split_bytes, s3_bucket) ==
    /\ swLast = "none"
    /\ sw' = SplitFileWriter_init(split_bytes, s3_bucket)
    /\ swErr' = "ok"
    /\ swLast' = "init"
    /\ UNCHANGED <<disk, written, swCloses, handles, rdVars, crypto, fast, gzVars>>

\* compressor = ParallelGzipWriter(split_writer, threads=threads)
NewParallelGzipWriter(threads, cpu_count) ==
    /\ swLast # "none"
    /\ call.op = "none"
    /\ LET r == ParallelGzipWriter_new(threads, cpu_count)
       IN  /\ gz' = r.gz
           /\ gzErr' = r.err
    /\ call' = [op |-> "init", future |-> 0, threads |-> threads]
    /\ UNCHANGED <<sinkVars, disk, rdVars, crypto, fast, executor, pc, input, sunk, hist>>

\* With a capacity below 0 every write, an empty one too, opens parts until
\* the stack is used up; the run stops writing at MaxConfigParts parts.
ConfigWrite(n) ==
    /\ swLast # "none"
    /\ sw.part_num < MaxConfigParts
    /\ SinkWrite(n)

ConfigClose == swLast # "none" /\ SinkClose

ConfigNext ==
    \/ \E c \in (-MaxBadSplit)..MaxSplit, b \in BOOLEAN : NewSplitFileWriter(c, b)
    \/ \E t \in (-MaxBadThreads)..MaxWorkers, n \in 1..MaxCpu :
           NewParallelGzipWriter(t, n)
    \/ \E n \in 0..MaxWrite : ConfigWrite(n)
    \/ ConfigClose

SpecConfig == ConfigInit /\ [][ConfigNext]_vars

\* C17: a SplitFileWriter built with a capacity of 0 or less, and a
\* ParallelGzipWriter built with a worker count of 0 or less, raise in the
\* constructor; such a sink accepts no write and creates no segment.
C17_BadConfigRejected ==
    /\ (swLast # "none" /\ sw.split_size <= 0) =>
           /\ swErr # "ok"
           /\ DOMAIN disk = {}
    /\ (call.op = "init" /\ call.threads <= 0) => gzErr # "ok"

\* ------------------------------------------------- further reader properties
\* C18: constructing the reader when no segment matches raises
\* FileNotFoundError; no reader object exists, no handle is open and no read
\* is made.
C18_NoSegmentsFound ==
    (rdLast.op # "none" /\ DOMAIN disk = {}) =>
        /\ rdErr = "FileNotFoundError"
        /\ rd = NoReader
        /\ rdLast.op = "init"
        /\ got = <<>>

\* The constructor has run on a disk without segments.
C18_Witness ==
    /\ rdLast.op = "init"
    /\ DOMAIN disk = {}
    /\ rdErr = "FileNotFoundError"

\* ---------------------------------------------------------- many segments
\* The index a part name stands for.
RECURSIVE PartIndex(_)
PartIndex(name) ==
    IF name = <<>> THEN 0
    ELSE 10 * PartIndex(SubSeq(name, 1, Len(name) - 1)) + name[Len(name)]

\* The parts 0..n-1 as SplitFileWriter names them, one byte in each.
PartsOnDisk(n) ==
    [name \in {PartSuffix(i) : i \in 0..(n - 1)} |-> <<PartIndex(name) + 1>>]

\* The part counts tried: every count up to MaxParts, and ManyParts.
PartCounts == 1..MaxParts \cup {ManyParts}

NamesInit ==
    /\ \E n \in PartCounts : disk = PartsOnDisk(n)
    /\ sw = SplitFileWriter_init(1, FALSE)
    /\ swErr = "ok"
    /\ written = <<>>
    /\ swCloses = 0
    /\ swLast = "init"
    /\ handles = {}
    /\ rd = NoReader
    /\ rdErr = "ok"
    /\ got = <<>>
    /\ rdLast = [op |-> "none", size |-> 0, data |-> <<>>]
    /\ crypto = NoCrypto
    /\ fast = NoStream
    /\ GzUnused

NamesNext ==
    \/ ReaderOpen
    \/ ReaderClose

SpecNames == NamesInit /\ [][NamesNext]_vars

\* C19: the reader's file list holds the parts in index order 0, 1, ...,
\* n-1, for every number n of parts.
C19_PartsInIndexOrder ==
    (rdLast.op # "none" /\ rdErr = "ok") =>
        rd.files = [i \in 1..Cardinality(DOMAIN disk) |-> PartSuffix(i - 1)]

\* ------------------------------------------- further pipeline properties
\* C12: with nothing written to the compressor, no chunk is submitted, no
\* frame is written, no segment is created and no call raises, close()
\* included.
C12_EmptyInput ==
    input = <<>> =>
        /\ executor.tasks = <<>>
        /\ sunk = <<>> /\ written = <<>>
        /\ sw.part_num = 0 /\ DOMAIN disk = {}
        /\ hist.errors = 0 /\ gzErr \in {"ok", "running"}
        /\ swErr = "ok"

\* close() has returned on a compressor that was given nothing.
C12_Witness ==
    /\ input = <<>>
    /\ hist.closed /\ pc = "idle" /\ call.op = "close" /\ gzErr = "ok"
    /\ executor.shutdown
    /\ swCloses = 1

\* C20: close() submits the partial buffer, drains every pending result in
\* order into the sink, shuts the pool down and then closes the sink: when
\* it has returned normally the buffer and the pending list are empty, the
\* pool is shut down, the sink is closed and the frame of every submitted
\* chunk has been written, in submission order.
C20_CloseCompletes ==
    (pc = "idle" /\ call.op = "close" /\ gzErr = "ok") =>
        /\ gz.buffer = <<>>
        /\ gz.futures = <<>>
        /\ executor.shutdown
        /\ sw.current_file # "open"
        /\ sunk = UpTo(Len(executor.tasks))

\* C21: once a write() or close() has raised a worker's error, the pool is
\* shut down and no later call submits a chunk.
C21_PoolShutDownAfterFailure ==
    /\ []((pc = "idle" /\ hist.firstFail # 0) => executor.shutdown)
    /\ [][hist.firstFail # 0 =>
              Len(executor'.tasks) = Len(executor.tasks)]_vars

\* C22: a step of a pool thread (a task changes its state) leaves the sink,
\* the disk, the pending list and the controlling thread as they are, and
\* the disk changes only in the controlling thread's sink.write, one frame
\* at a time.
C22_OnlyControllerTouchesSink ==
    [][ /\ (\E i \in 1..Len(executor.tasks) :
                executor'.tasks[i].state # executor.tasks[i].state) =>
              /\ UNCHANGED <<sw, disk, handles, swErr, written, swCloses, sunk>>
              /\ gz' = gz
              /\ pc' = pc
        /\ disk' # disk =>
              /\ pc = "wait"
              /\ Len(sunk') = Len(sunk) + 1 ]_vars

\* The controlling thread waits for a chunk that is still being compressed
\* while a later chunk is done already and an earlier frame is in the sink.
C22_Witness ==
    /\ pc = "wait"
    /\ executor.tasks[call.future].state = "running"
    /\ \E i \in 1..Len(executor.tasks) :
           i > call.future /\ executor.tasks[i].state = "done"
    /\ Len(sunk) >= 1

\* The bytes not yet read: the rest of the current segment and all of the
\* later ones.
BytesLeft(d, r) ==
    Len(ConcatFiles(d, r.files, Len(r.files)))
        - Len(ConcatFiles(d, r.files, r.current_idx)) - r.pos

\* C23: read(size) with size > 0 returns exactly min(size, bytes left in
\* the current and all later segments) bytes.
C23_ReadReturnsMinOfSizeAndLeft ==
    (rdLast.op = "read" /\ rdErr = "ok" /\ rdLast.size > 0) =>
        LET before == Len(rdLast.data) + BytesLeft(disk, rd)
        IN  Len(rdLast.data) =
                IF rdLast.size < before THEN rdLast.size ELSE before

\* The first read asks for more than the first segment holds, crosses an
\* empty segment and gets all it asked for.
C23_Witness ==
    /\ rdLast.op = "read" /\ rdErr = "ok"
    /\ rdLast.size = 3 /\ Len(rdLast.data) = 3
    /\ Len(got) = 3
    /\ Len(rd.files) = 3
    /\ Len(disk[rd.files[2]]) = 0
    /\ rd.current_idx = 2

\* C24: every chunk submitted to the pool is at most chunk_size long.
C24_ChunkAtMostChunkSize ==
    \A i \in 1..Len(executor.tasks) :
        Len(executor.tasks[i].data) <= gz.chunk_size

\* C25: after close() the reader's current handle is closed and no error
\* was raised; one more close() raises nothing and leaves the reader as it
\* is (and so does any number of them).
C25_ReaderCloseIdempotent ==
    rdLast.op = "close" =>
        /\ rdErr = "ok"
        /\ rd.current_file = "closed"
        /\ MultiPartFileReader_close(rd) = rd

\* Closed after reads that went on into a later segment.
C25_Witness ==
    /\ rdLast.op = "close"
    /\ rd.current_file = "closed"
    /\ rd.current_idx >= 1
    /\ Len(got) >= 2

\* C28: after a write() that returned normally the buffer holds fewer than
\* chunk_size bytes; a write() that takes the buffer to chunk_size or more
\* submits the whole buffer as one chunk and leaves an empty buffer.
C28_BufferBelowChunkSize ==
    /\ []((pc = "idle" /\ call.op = "write" /\ gzErr = "ok") =>
              Len(gz.buffer) < gz.chunk_size)
    /\ [][(pc = "idle" /\ call'.op = "write" /\ gzErr' \in {"ok", "running"}
              /\ Len(input') - Len(input) + Len(gz.buffer) >= gz.chunk_size) =>
                /\ gz'.buffer = <<>>
                /\ executor'.tasks =
                       Append(executor.tasks,
                              [data  |-> gz.buffer \o
                                         SubSeq(input', Len(input) + 1,
                                                Len(input')),
                               state |-> "queued"])]_vars

\* A write() has returned normally after filling the buffer exactly to
\* chunk_size, with an earlier chunk submitted already.
C28_Witness ==
    /\ pc = "idle" /\ call.op = "write" /\ gzErr = "ok"
    /\ gz.buffer = <<>>
    /\ Len(executor.tasks) = 2
    /\ Len(executor.tasks[2].data) = gz.chunk_size
    /\ Len(input) = Len(executor.tasks[1].data) + gz.chunk_size

\* The raw data of the first n submitted chunks, in submission order.
RECURSIVE ConcatChunks(_, _)
ConcatChunks(tasks, n) ==
    IF n = 0 THEN <<>>
    ELSE ConcatChunks(tasks, n - 1) \o tasks[n].data

\* C29: in every state the submitted chunks in submission order followed
\* by the buffer are the data passed to write(), and no chunk is empty.
C29_ChunksPartitionInput ==
    /\ ConcatChunks(executor.tasks, Len(executor.tasks)) \o gz.buffer = input
    /\ \A i \in 1..Len(executor.tasks) : executor.tasks[i].data # <<>>

\* C30: a drain that write() has entered pops a result only while the
\* pending list is over the threshold.
C30_DrainStopsAtThreshold ==
    [][(call.op = "write" /\ pc = "drain" /\ pc' = "wait") =>
           OverThreshold(gz)]_vars

\* ------------------------------------------------------ crypto on its own
\* The file system is `disk`: file name -> text.  The directories /d and
\* /x.encoded and the working directory exist.
Tokens == {[i \in 1..SaltBytes |-> (37 * t + 16 * i + 11) % 256] : t \in 0..MaxToken}
Salts == {generate_salt(token).v : token \in Tokens}
IterationCounts == (1..MaxIterations) \cup {DefaultIterations}
Paths == {<<"/", "d", "/", "a">>,
          <<"/", "d", "/", "b", ".", "e", "n", "c">>,
          <<"r", ".", "e", "n", "c", "x">>,
          <<"/", "x", ".", "e", "n", "c", "o", "d", "e", "d", "/", "a">>}
OutputFile == <<"o", "u", "t">>

CryptoInit ==
    /\ sw = NoSink
    /\ disk = << >>
    /\ swErr = "ok"
    /\ written = <<>>
    /\ swCloses = 0
    /\ swLast = "init"
    /\ handles = {}
    /\ rd = NoReader
    /\ rdErr = "ok"
    /\ got = <<>>
    /\ rdLast = [op |-> "none", size |-> 0, data |-> <<>>]
    /\ crypto = NoCrypto
    /\ fast = NoStream
    /\ GzUnused

notCrypto == <<sinkVars, rdVars, gzVars, fast>>

SaveMetadata(p, s, i) ==
    /\ \/ p \o Enc \in DOMAIN disk
       \/ Cardinality(DOMAIN disk) < MaxMetadataFiles
    /\ disk' = save_metadata(disk, p, s, i)
    /\ crypto' = [op |-> "save_metadata", path |-> p, salt |-> PyStr(s),
                  iterations |-> i, exc |-> "none", ret |-> PyStr(p \o Enc)]
    /\ UNCHANGED notCrypto

\* load_metadata(p) straight after save_metadata(p, s, i).
LoadMetadata ==
    /\ crypto.op = "save_metadata"
    /\ LET found == metadata_files(disk, crypto.path)
       IN  \/ /\ found = {}
              /\ crypto' = [crypto EXCEPT !.op = "load_metadata", !.ret = None]
           \/ \E f \in found :
                 crypto' = [crypto EXCEPT !.op = "load_metadata",
                                          !.ret = read_metadata(disk, f)]
    /\ UNCHANGED <<disk, notCrypto>>

EncryptFile(salt, token, have_openssl, returncode) ==
    LET r == encrypt_file(salt, token, have_openssl, returncode)
    IN  /\ \/ OutputFile \in DOMAIN disk
           \/ Cardinality(DOMAIN disk) < MaxMetadataFiles
        /\ crypto' = [op |-> "encrypt_file", salt |-> salt, token |-> token,
                      exc |-> r.exc, ret |-> r.ret]
        /\ disk' = IF r.exc = "none"
                   THEN [f \in DOMAIN disk \cup {OutputFile} |->
                            IF f = OutputFile THEN Ciphertext(r.ret.v) ELSE disk[f]]
                   ELSE disk
        /\ UNCHANGED notCrypto

FastBackupSalt(encrypt_enabled, salt_hex, token) ==
    LET r == fast_backup_salt(encrypt_enabled, salt_hex, token)
    IN  /\ crypto' = [op |-> "fast_backup", enabled |-> encrypt_enabled,
                      salt |-> salt_hex, token |-> token,
                      exc |-> r.exc, ret |-> r.ret]
        /\ UNCHANGED <<disk, notCrypto>>

SaltArgs == {None} \cup {PyStr(s) : s \in Salts} \cup {PyStr(<<"a", "b">>)}

CryptoNext ==
    \/ \E p \in Paths, s \in Salts, i \in IterationCounts : SaveMetadata(p, s, i)
    \/ LoadMetadata
    \/ \E salt \in SaltArgs, token \in Tokens, o \in BOOLEAN, rc \in 0..1 :
          EncryptFile(salt, token, o, rc)
    \/ \E e \in BOOLEAN, salt \in SaltArgs, token \in Tokens :
          FastBackupSalt(e, salt, token)

SpecCrypto == CryptoInit /\ [][CryptoNext]_vars

\* C26: load_metadata(p) called after save_metadata(p, s, i) returns salt s
\* and iterations i, for every base path p, salt s and iteration count i.
C26_MetadataRoundTrip ==
    crypto.op = "load_metadata" =>
        /\ crypto.ret # None
        /\ crypto.ret.salt = crypto.salt
        /\ crypto.ret.iterations = crypto.iterations

\* C27: when no salt is supplied to encrypt_file (openssl being there and
\* succeeding) or to fast_backup with encryption enabled, a salt of 32 hex
\* characters is generated, no exception is raised, and that salt is the one
\* returned or recorded.
C27_SaltGeneratedWhenMissing ==
    (/\ crypto.op \in {"encrypt_file", "fast_backup"}
     /\ crypto.salt = None
     /\ crypto.op = "fast_backup" => crypto.enabled
     /\ crypto.exc # "RuntimeError") =>
        /\ crypto.exc = "none"
        /\ crypto.ret = PyStr(bytes_hex(crypto.token))
        /\ Len(crypto.ret.v) = SaltHexLen

\* ---------------------------------------------------------------- progress
\* The controlling thread goes on through its drain loop, the pool starts
\* queued chunks while a worker is free, and a compression that was started
\* ends (the assumption of C31; the chunks of a run being finitely many,
\* fairness for the pool as a whole gives it for every chunk).
Controller == DrainPop \/ DrainResult \/ DrainReturn

\* A short stream, for every worker count, into a sink whose first part
\* takes all of it.
LiveInit ==
    /\ sw = SplitFileWriter_init(2 * MaxLiveInput, FALSE)
    /\ disk = << >>
    /\ swErr = "ok"
    /\ written = <<>>
    /\ swCloses = 0
    /\ swLast = "init"
    /\ handles = {}
    /\ rd = NoReader
    /\ rdErr = "ok"
    /\ got = <<>>
    /\ rdLast = [op |-> "none", size |-> 0, data |-> <<>>]
    /\ crypto = NoCrypto
    /\ fast = NoStream
    /\ \E w \in 1..MaxWorkers : gz = ParallelGzipWriter_init(w)
    /\ executor = [shutdown |-> FALSE, tasks |-> <<>>]
    /\ pc = "idle"
    /\ call = NoCall
    /\ gzErr = "ok"
    /\ input = <<>>
    /\ sunk = <<>>
    /\ hist = NoHist


LiveNext ==
    \/ \E n \in 1..MaxGzWrite : Len(input) + n <= MaxLiveInput /\ GzWrite(n)
    \/ GzClose
    \/ Controller
    \/ \E i \in 1..Len(executor.tasks) : WorkerStart(i)
    \/ \E i \in 1..Len(executor.tasks), ok \in BOOLEAN : WorkerFinish(i, ok)

Fairness ==
    /\ WF_vars(Controller)
    /\ WF_vars(\E i \in 1..Len(executor.tasks) : WorkerStart(i))
    /\ WF_vars(\E i \in 1..Len(executor.tasks) : WorkerFinish(i, TRUE))

SpecLive == LiveInit /\ [][LiveNext]_vars /\ Fairness

\* C31: every call of write() and close() comes to its end, by returning or
\* by raising: the controlling thread does not stay in the drain loop or in
\* the wait for the chunk at the head of the pending list.
C31_CallsReturn == (pc # "idle") ~> (pc = "idle")

C31_Witness ==
    /\ pc = "wait"
    /\ executor.tasks[call.future].state = "queued"
    /\ call.op = "write"

\* ------------------------------------------------------ reading to the end
\* C32: read(-1) on an open reader, after any bounded reads, returns in one
\* result all bytes from the current position to the end of the last
\* segment, and once nothing is left every read returns an empty result.
C32_ReadAllDrains ==
    /\ []((rdLast.op = "read" /\ rdLast.size = -1 /\ rdErr = "ok") =>
             /\ rdLast.data = Drop(Stream, Len(got) - Len(rdLast.data))
             /\ got = Stream
             /\ BytesLeft(disk, rd) = 0)
    /\ [][(/\ rdLast.op = "read" /\ rdErr = "ok"
           /\ BytesLeft(disk, rd) = 0
           /\ rdLast'.op = "read" /\ rdErr' = "ok") =>
               /\ rdLast'.data = <<>>
               /\ BytesLeft(disk', rd') = 0]_vars

\* read(-1) after bounded reads took the end of one segment and two more.
C32_Witness ==
    /\ rdLast.op = "read" /\ rdLast.size = -1 /\ rdErr = "ok"
    /\ Len(rd.files) = 3
    /\ rd.current_idx = 2
    /\ Len(disk[rd.files[1]]) = 2
    /\ Len(got) = Len(rdLast.data) + 1
    /\ Len(rdLast.data) = 1 + Len(disk[rd.files[2]]) + Len(disk[rd.files[3]])
    /\ Len(disk[rd.files[2]]) >= 1 /\ Len(disk[rd.files[3]]) >= 1

\* --------------------------------------------------------- segment count
\* C33: after writes of total length n > 0 to a sink of capacity C > 0 (no
\* close before them) exactly ceil(n / C) segments exist, numbered from 0
\* without gap, get_part_count() is that number, and the last segment is
\* not empty.
C33_SegmentCount ==
    (swCloses = 0 /\ Len(written) > 0 /\ sw.split_size > 0) =>
        /\ get_part_count(sw) =
              (Len(written) + sw.split_size - 1) \div sw.split_size
        /\ PartsNumbered
        /\ disk[PartSuffix(sw.part_num - 1)] # <<>>

C35_OneHandleOnCurrent ==
    /\ [](/\ Cardinality(rd.open_files) <= 1
          /\ rd.open_files \subseteq {rd.current_idx}
          /\ rd.current_file = "open" <=> rd.open_files = {rd.current_idx}
          /\ rd.files # <<>> => rd.current_idx \in 0..(Len(rd.files) - 1)
          /\ rd.files = <<>> => rd = NoReader)
    /\ [][rd'.current_idx >= rd.current_idx]_vars

\* Reads have taken the reader from the first segment to the third.
C35_Witness ==
    /\ rdLast.op = "read" /\ rdErr = "ok"
    /\ Len(rd.files) = 3
    /\ rd.current_idx = 2
    /\ rd.open_files = {2}
    /\ 0 < rd.pos /\ rd.pos < Len(disk[rd.files[3]])
    /\ rdLast.size # -1

\* ------------------------------------------------------ parts to upload
\* C36: with an S3 destination, once run_backup has closed the compressor
\* (which closes the sink) and then the sink again, without any error,
\* files_ready_for_upload lists the parts 0..part_num-1, each once, in
\* index order.
C36_EachPartListedOnce ==
    (/\ pc = "idle" /\ hist.closed /\ hist.errors = 0
     /\ swCloses = 2 /\ swLast = "close"
     /\ sw.s3_bucket) =>
        sw.files_ready_for_upload = [i \in 1..sw.part_num |-> PartSuffix(i - 1)]

\* ----------------------------------------------------------- stream_to_s3
\* archivedir_fast.stream_to_s3(file_stream, bucket, key), step by step.
\* "Exception" stands for an exception of class Exception (a ClientError,
\* an OSError), "KeyboardInterrupt" for one outside it (Ctrl-C, SystemExit).
\* fast.mpu is the state of the multipart upload at S3, fast.uploaded the
\* parts S3 holds for it.
Exceptions == {"Exception", "KeyboardInterrupt"}

\* The stream holds the bytes 1..n; the call is at its first read.
stream_to_s3(n) ==
    [ fn |-> "stream_to_s3", pc |-> "read",
      stream |-> [k \in 1..n |-> k], offset |-> 0, chunk |-> <<>>,
      parts |-> <<>>, part_num |-> 1,
      exc |-> "none", ret |-> "none", failures |-> 0,
      mpu |-> "open", uploaded |-> <<>>, completed |-> <<>> ]

\* An exception raised inside the try block: `except Exception` takes it
\* to the handler, any other leaves the function.
S3Fail(f, e) ==
    [f EXCEPT !.exc = e, !.failures = @ + 1,
              !.pc = IF e = "Exception" THEN "handler" ELSE "raised"]

\* create_multipart_upload: the upload exists, or the call raises.
S3Start(n) ==
    /\ fast.fn = "none"
    /\ \/ fast' = stream_to_s3(n)
       \/ fast' = [stream_to_s3(n) EXCEPT !.pc = "raised", !.exc = "Exception",
                                          !.mpu = "none", !.failures = 1]
    /\ UNCHANGED <<sinkVars, disk, rdVars, gzVars, crypto>>

\* chunk = file_stream.read(chunk_size); if not chunk: break
S3Read ==
    /\ fast.fn = "stream_to_s3" /\ fast.pc = "read"
    /\ LET rest  == Len(fast.stream) - fast.offset
           n     == IF rest < PartSize THEN rest ELSE PartSize
           chunk == SubSeq(fast.stream, fast.offset + 1, fast.offset + n)
       IN  \/ fast' = [fast EXCEPT !.chunk = chunk, !.offset = @ + n,
                           !.pc = IF chunk = <<>> THEN "complete" ELSE "upload"]
           \/ /\ fast.failures < MaxCloudFailures
              /\ \E e \in Exceptions : fast' = S3Fail(fast, e)
    /\ UNCHANGED <<sinkVars, disk, rdVars, gzVars, crypto>>

\* upload_part(PartNumber=part_num, Body=chunk); parts.append; part_num += 1
S3UploadPart ==
    /\ fast.fn = "stream_to_s3" /\ fast.pc = "upload"
    /\ \/ fast' = [fast EXCEPT
                      !.uploaded = Append(@, [PartNumber |-> fast.part_num,
                                              Body |-> fast.chunk]),
                      !.parts = Append(@, [PartNumber |-> fast.part_num,
                                           ETag |-> fast.chunk]),
                      !.part_num = @ + 1,
                      !.pc = "read"]
       \/ /\ fast.failures < MaxCloudFailures
          /\ \E e \in Exceptions : fast' = S3Fail(fast, e)
    /\ UNCHANGED <<sinkVars, disk, rdVars, gzVars, crypto>>

\* complete_multipart_upload(MultipartUpload={'Parts': parts}); return True.
\* S3 refuses an empty list of parts.
S3Complete ==
    /\ fast.fn = "stream_to_s3" /\ fast.pc = "complete"
    /\ \/ /\ fast.parts # <<>>
          /\ fast' = [fast EXCEPT !.mpu = "completed", !.completed = fast.parts,
                                  !.pc = "returned", !.ret = "True"]
       \/ /\ fast.parts = <<>>
          /\ fast' = S3Fail(fast, "Exception")
       \/ /\ fast.failures < MaxCloudFailures
          /\ \E e \in Exceptions : fast' = S3Fail(fast, e)
    /\ UNCHANGED <<sinkVars, disk, rdVars, gzVars, crypto>>

\* except Exception: abort_multipart_upload(...); raise
S3Abort ==
    /\ fast.fn = "stream_to_s3" /\ fast.pc = "handler"
    /\ \/ fast' = [fast EXCEPT !.mpu = "aborted", !.pc = "raised"]
       \/ /\ fast.failures < MaxCloudFailures
          /\ \E e \in Exceptions :
                fast' = [fast EXCEPT !.exc = e, !.failures = @ + 1,
                                     !.pc = "raised"]
    /\ UNCHANGED <<sinkVars, disk, rdVars, gzVars, crypto>>

StreamInit ==
    /\ sw = NoSink
    /\ disk = << >>
    /\ swErr = "ok"
    /\ written = <<>>
    /\ swCloses = 0
    /\ swLast = "init"
    /\ handles = {}
    /\ rd = NoReader
    /\ rdErr = "ok"
    /\ got = <<>>
    /\ rdLast = [op |-> "none", size |-> 0, data |-> <<>>]
    /\ crypto = NoCrypto
    /\ fast = NoStream
    /\ GzUnused

S3Next ==
    \/ \E n \in 0..MaxStream : S3Start(n)
    \/ S3Read
    \/ S3UploadPart
    \/ S3Complete
    \/ S3Abort

SpecS3 == StreamInit /\ [][S3Next]_vars

\* The bodies of the parts S3 holds, in the order of the list.
RECURSIVE Bodies(_, _)
Bodies(uploaded, n) ==
    IF n = 0 THEN <<>> ELSE Bodies(uploaded, n - 1) \o uploaded[n].Body

\* C38: when stream_to_s3 has returned or raised after initiating a
\* multipart upload, the upload is completed or aborted; it returned True
\* only with the upload completed from the parts 1..n holding the stream in
\* read order; and when it raised, the upload is aborted.
C38_UploadFinished ==
    (fast.fn = "stream_to_s3" /\ fast.pc \in {"returned", "raised"}
        /\ fast.mpu # "none") =>
        /\ fast.mpu \in {"completed", "aborted"}
        /\ fast.pc = "returned" =>
              /\ fast.ret = "True" /\ fast.mpu = "completed"
              /\ \A k \in 1..Len(fast.uploaded) : fast.uploaded[k].PartNumber = k
              /\ Bodies(fast.uploaded, Len(fast.uploaded)) = fast.stream
              /\ fast.completed = fast.parts
              /\ Len(fast.parts) = Len(fast.uploaded)
        /\ fast.pc = "raised" => fast.mpu = "aborted" /\ fast.exc # "none"

\* ------------------------------------------------------- stream_to_gdrive
\* archivedir_fast.stream_to_gdrive(file_stream, folder_path, filename): the
\* main thread reads the stream part by part and starts one upload thread
\* per part, then joins the threads and looks at their results.
\* fast.threads[k] is the thread of part k-1, fast.results the queue
\* upload_results, fast.joined the number of threads joined so far.
stream_to_gdrive(n) ==
    [ fn |-> "stream_to_gdrive", pc |-> "read",
      stream |-> [k \in 1..n |-> k], offset |-> 0,
      part_num |-> 0, total_uploaded |-> 0,
      threads |-> <<>>, results |-> <<>>, joined |-> 0,
      exc |-> "none", ret |-> -1, failures |-> 0 ]

GdStart(n) ==
    /\ fast.fn = "none"
    /\ fast' = stream_to_gdrive(n)
    /\ UNCHANGED <<sinkVars, disk, rdVars, gzVars, crypto>>

\* An exception in the main thread (from file_stream.read, or Ctrl-C):
\* nothing in stream_to_gdrive handles it.
GdRaise(e) ==
    /\ fast.failures < MaxCloudFailures
    /\ fast' = [fast EXCEPT !.exc = e, !.pc = "raised", !.failures = @ + 1]

\* One pass of `while True`: a part is read into a buffer and, unless it is
\* empty, a thread is started for it; a short part is the last one.
GdReadPart ==
    /\ fast.fn = "stream_to_gdrive" /\ fast.pc = "read"
    /\ LET rest       == Len(fast.stream) - fast.offset
           bytes_read == IF rest < PartSize THEN rest ELSE PartSize
           buffer     == SubSeq(fast.stream, fast.offset + 1,
                                fast.offset + bytes_read)
       IN  \/ /\ bytes_read = 0
              /\ fast' = [fast EXCEPT !.pc = "join"]
           \/ /\ bytes_read > 0
              /\ fast' = [fast EXCEPT
                            !.offset = @ + bytes_read,
                            !.threads = Append(@, [part |-> fast.part_num,
                                                   buffer |-> buffer,
                                                   state |-> "running"]),
                            !.total_uploaded = @ + bytes_read,
                            !.part_num = @ + 1,
                            !.pc = IF bytes_read < PartSize
                                   THEN "join" ELSE "read"]
           \/ \E e \in Exceptions : GdRaise(e)
    /\ UNCHANGED <<sinkVars, disk, rdVars, gzVars, crypto>>

\* upload_part_thread: the upload succeeds or raises, and the thread puts
\* its result in the queue and ends.
GdUpload(k, success) ==
    /\ fast.fn = "stream_to_gdrive"
    /\ k \in 1..Len(fast.threads)
    /\ fast.threads[k].state = "running"
    /\ fast' = [fast EXCEPT
                  !.threads[k].state = IF success THEN "uploaded" ELSE "failed",
                  !.results = Append(@, [part |-> fast.threads[k].part,
                                         success |-> success])]
    /\ UNCHANGED <<sinkVars, disk, rdVars, gzVars, crypto>>

GdJoin_mut_nowait ==
    /\ fast.fn = "stream_to_gdrive" /\ fast.pc = "join"
    /\ \/ /\ fast.joined < Len(fast.threads)
          /\ fast' = [fast EXCEPT !.joined = @ + 1]
       \/ /\ fast.joined = Len(fast.threads)
          /\ fast' = [fast EXCEPT !.pc = "check"]
       \/ GdRaise("KeyboardInterrupt")
    /\ UNCHANGED <<sinkVars, disk, rdVars, gzVars, crypto>>

\* for idx, thread in enumerate(upload_threads): thread.join()
GdJoin ==
    /\ fast.fn = "stream_to_gdrive" /\ fast.pc = "join"
    /\ \/ /\ fast.joined < Len(fast.threads)
          /\ fast.threads[fast.joined + 1].state # "running"
          /\ fast' = [fast EXCEPT !.joined = @ + 1]
       \/ /\ fast.joined = Len(fast.threads)
          /\ fast' = [fast EXCEPT !.pc = "check"]
       \/ GdRaise("KeyboardInterrupt")
    /\ UNCHANGED <<sinkVars, disk, rdVars, gzVars, crypto>>

\* The parts whose result in the queue says the upload failed.
failed_parts(results) ==
    {results[k].part : k \in {j \in 1..Len(results) : ~results[j].success}}

\* if failed_parts: raise Exception(...); return part_num
GdCheck ==
    /\ fast.fn = "stream_to_gdrive" /\ fast.pc = "check"
    /\ fast' = IF failed_parts(fast.results) # {}
               THEN [fast EXCEPT !.pc = "raised", !.exc = "UploadFailed",
                                 !.results = <<>>]
               ELSE [fast EXCEPT !.pc = "returned", !.ret = fast.part_num,
                                 !.results = <<>>]
    /\ UNCHANGED <<sinkVars, disk, rdVars, gzVars, crypto>>

GdNext ==
    \/ \E n \in 0..MaxStream : GdStart(n)
    \/ GdReadPart
    \/ \E k \in 1..MaxStream, success \in BOOLEAN : GdUpload(k, success)
    \/ GdJoin
    \/ GdCheck

SpecGdrive == StreamInit /\ [][GdNext]_vars

\* The buffers given to the first n threads, in order.
RECURSIVE Buffers(_, _)
Buffers(threads, n) ==
    IF n = 0 THEN <<>> ELSE Buffers(threads, n - 1) \o threads[n].buffer

\* C37: stream_to_gdrive returns normally only with every thread it started
\* joined and ended and every part uploaded (the parts 0..n-1 holding the
\* stream in order, n being the value returned); and when it raises because
\* of failed uploads, all threads have been joined and have ended.
C37_ReturnsAfterAllUploads ==
    fast.fn = "stream_to_gdrive" =>
        /\ fast.pc = "returned" =>
              /\ fast.joined = Len(fast.threads)
              /\ \A k \in 1..Len(fast.threads) :
                    /\ fast.threads[k].state = "uploaded"
                    /\ fast.threads[k].part = k - 1
              /\ fast.ret = Len(fast.threads)
              /\ Buffers(fast.threads, Len(fast.threads)) = fast.stream
        /\ (fast.pc = "raised" /\ fast.exc = "UploadFailed") =>
              /\ fast.joined = Len(fast.threads)
              /\ \A k \in 1..Len(fast.threads) : fast.threads[k].state # "running"
              /\ \E k \in 1..Len(fast.threads) : fast.threads[k].state = "failed"
        /\ (fast.pc \in {"returned", "raised"}
               /\ \E k \in 1..Len(fast.threads) : fast.threads[k].state = "failed")
              => fast.pc = "raised"

\* Three parts, the upload of the second failed after the third ended.
C37_Witness ==
    /\ fast.fn = "stream_to_gdrive"
    /\ fast.pc = "raised" /\ fast.exc = "UploadFailed"
    /\ Len(fast.threads) = 3
    /\ fast.threads[1].state = "uploaded"
    /\ fast.threads[2].state = "failed"
    /\ fast.threads[3].state = "uploaded"
    /\ Len(fast.threads[3].buffer) < PartSize

\* ---------------------------------------------------------------------------
\* run_extract
\*
\* The archive is a tar stream of `members` members.  What glob finds, whether
\* tqdm could be imported, the two error flags of the command line, and the
\* outcome of every open, of every step of the tar iteration and of every
\* tar.extract are inputs of the environment.
\* ---------------------------------------------------------------------------

MaxFiles == 2
MaxMembers == 2

should_continue(r) == r.continue_on_error /\ ~r.stop_on_error

\* run_extract up to the choice of the path: `extracted` lists the members
\* tar.extract has written, one entry for every successful call.
run_extract(nfiles, members, t, cont, stop) ==
    [fn |-> "run_extract",
     pc |-> IF nfiles = 0 THEN "returned"
            ELSE IF nfiles = 1 THEN "single" ELSE "multi_test",
     files |-> nfiles,
     members |-> members,
     tqdm |-> t,
     continue_on_error |-> cont,
     stop_on_error |-> stop,
     position |-> 0,
     files_extracted |-> 0,
     archive_size |-> "unbound",
     extracted |-> <<>>,
     errors |-> 0,
     clean |-> FALSE,
     path |-> <<>>]

ExStart(nfiles, members, t, cont, stop) ==
    /\ fast = NoStream
    /\ fast' = run_extract(nfiles, members, t, cont, stop)
    /\ UNCHANGED <<sinkVars, disk, rdVars, gzVars, crypto>>

\* open(files[0]) and tarfile.open: a failure is caught by the outer handler,
\* which falls through to the multi-part path.  archive_size is assigned only
\* in the branch taken without tqdm.
ExSingleOpen(ok) ==
    /\ fast.fn = "run_extract" /\ fast.pc = "single"
    /\ fast' = IF ~ok
               THEN [fast EXCEPT !.path = Append(@, "single"),
                                 !.errors = @ + 1,
                                 !.pc = "multi_test"]
               ELSE [fast EXCEPT !.path = Append(@, "single"),
                                 !.archive_size = IF fast.tqdm THEN @ ELSE "set",
                                 !.pc = "single_loop"]
    /\ UNCHANGED <<sinkVars, disk, rdVars, gzVars, crypto>>

\* One turn of the member loop of the single-file path.
ExSingleMember(it, outcome) ==
    /\ fast.fn = "run_extract" /\ fast.pc = "single_loop"
    /\ fast.position < fast.members
    /\ fast' =
         IF it # "ok"
         THEN \* the iteration over the tar stream raised
              IF fast.tqdm
              THEN [fast EXCEPT !.errors = @ + 1,
                                !.pc = IF should_continue(fast)
                                       THEN "returned" ELSE "multi_test"]
              ELSE [fast EXCEPT !.errors = @ + 1, !.pc = "single_stats"]
         ELSE IF outcome = "ok"
         THEN [fast EXCEPT !.extracted = Append(@, fast.position + 1),
                           !.files_extracted = @ + 1,
                           !.position = @ + 1]
         ELSE IF should_continue(fast)
         THEN [fast EXCEPT !.errors = @ + 1, !.position = @ + 1]
         ELSE \* re-raised: with tqdm it leaves the path, without it the
              \* handler of the iteration prints it and the loop is left
              [fast EXCEPT !.errors = @ + 1,
                           !.pc = IF fast.tqdm THEN "multi_test"
                                  ELSE "single_stats"]
    /\ UNCHANGED <<sinkVars, disk, rdVars, gzVars, crypto>>

\* The tar iteration ends (StopIteration).
ExSingleEnd ==
    /\ fast.fn = "run_extract" /\ fast.pc = "single_loop"
    /\ fast.position = fast.members
    /\ fast' = [fast EXCEPT !.clean = (fast.errors = 0), !.pc = "single_stats"]
    /\ UNCHANGED <<sinkVars, disk, rdVars, gzVars, crypto>>

\* tar.close() and the extraction statistics: reading archive_size while it is
\* unbound raises UnboundLocalError, an Exception the outer handler catches.
ExSingleStats ==
    /\ fast.fn = "run_extract" /\ fast.pc = "single_stats"
    /\ fast' = [fast EXCEPT !.pc = IF fast.archive_size = "unbound"
                                   THEN "multi_test" ELSE "returned"]
    /\ UNCHANGED <<sinkVars, disk, rdVars, gzVars, crypto>>

\* The header test of the multi-part path, then the second reader and tar
\* stream: an empty or unreadable archive ends run_extract.
ExMultiTest(ok) ==
    /\ fast.fn = "run_extract" /\ fast.pc = "multi_test"
    /\ fast' = IF fast.members = 0 \/ ~ok
               THEN [fast EXCEPT !.path = Append(@, "multi"),
                                 !.pc = "returned"]
               ELSE [fast EXCEPT !.path = Append(@, "multi"),
                                 !.position = 0,
                                 !.files_extracted = 0,
                                 !.pc = "multi_loop"]
    /\ UNCHANGED <<sinkVars, disk, rdVars, gzVars, crypto>>

\* One turn of the member loop of the multi-part path: every exception that
\* leaves the loop is caught and ends run_extract.
ExMultiMember(it, outcome) ==
    /\ fast.fn = "run_extract" /\ fast.pc = "multi_loop"
    /\ fast.position < fast.members
    /\ fast' =
         IF it # "ok"
         THEN [fast EXCEPT !.errors = @ + 1, !.pc = "returned"]
         ELSE IF outcome = "ok"
         THEN [fast EXCEPT !.extracted = Append(@, fast.position + 1),
                           !.files_extracted = @ + 1,
                           !.position = @ + 1]
         ELSE IF should_continue(fast)
         THEN [fast EXCEPT !.errors = @ + 1, !.position = @ + 1]
         ELSE [fast EXCEPT !.errors = @ + 1, !.pc = "returned"]
    /\ UNCHANGED <<sinkVars, disk, rdVars, gzVars, crypto>>

ExMultiEnd ==
    /\ fast.fn = "run_extract" /\ fast.pc = "multi_loop"
    /\ fast.position = fast.members
    /\ fast' = [fast EXCEPT !.pc = "returned"]
    /\ UNCHANGED <<sinkVars, disk, rdVars, gzVars, crypto>>

ExtractNext ==
    \/ \E nfiles \in 0..MaxFiles, members \in 0..MaxMembers,
          t \in BOOLEAN, cont \in BOOLEAN, stop \in BOOLEAN :
          ExStart(nfiles, members, t, cont, stop)
    \/ \E ok \in BOOLEAN : ExSingleOpen(ok)
    \/ \E it \in {"ok", "ReadError"}, outcome \in {"ok", "OSError", "Exception"} :
          ExSingleMember(it, outcome)
    \/ ExSingleEnd
    \/ ExSingleStats
    \/ \E ok \in BOOLEAN : ExMultiTest(ok)
    \/ \E it \in {"ok", "ReadError"}, outcome \in {"ok", "OSError", "Exception"} :
          ExMultiMember(it, outcome)
    \/ ExMultiEnd

SpecExtract == StreamInit /\ [][ExtractNext]_vars

\* C39: when exactly one file matches the pattern and the single-file path
\* has extracted every member without an error, run_extract does not enter
\* the multi-part path, and every member is extracted exactly once.
C39_SingleFileExtractedOnce ==
    (fast.fn = "run_extract" /\ fast.files = 1 /\ fast.clean) =>
        /\ fast.path = <<"single">>
        /\ fast.extracted = [i \in 1..fast.members |-> i]

====
